---- MODULE Spec2Model ----
(***************************************************************************)
(* Model of chip8.c: the CHIP-8 machine object, the ROM loader             *)
(* (init_chip8), the SDL event handler (handle_input) and the main         *)
(* emulator loop of main().                                                *)
(***************************************************************************)
EXTENDS Integers, Sequences, FiniteSets, TLC

VARIABLES
    pc,         \* position of main(): "init", "loop", "exit_failure", "exit_success"
    chip8,      \* the chip8_t machine object of main()
    rom,        \* the ROM file named by argv[1]
    queue,      \* the SDL event queue read by SDL_PollEvent
    log,        \* the last message init_chip8 passed to SDL_Log ("" if none)
    written,    \* history: every ram offset a copy of init_chip8 has written
    last_iter   \* history: the last main-loop iteration (NoIter before the first)

vars == <<pc, chip8, rom, queue, log, written, last_iter>>

----------------------------------------------------------------------------
(* Bounds of the model *)

MaxQueue == 2       \* events that can wait in the SDL queue
SmallSize == 1      \* ROM sizes 0..SmallSize are tried
Near == 0           \* ROM sizes max_size-Near..max_size+1+Near are tried
MaxTimer == 5       \* timer values tried by the timer specification

----------------------------------------------------------------------------
(* emulator_state_t *)

QUIT == 0
RUNNING == 1
PAUSED == 2

(* chip8_t *)

RamSize == 4096
DisplaySize == 64 * 32
StackSize == 12
NumRegs == 16
NumKeys == 16

\* chip8_t chip8 = {0};
ZeroChip8 ==
    [ state       |-> QUIT,
      ram         |-> [a \in 0..(RamSize - 1) |-> 0],
      display     |-> [p \in 0..(DisplaySize - 1) |-> FALSE],
      stack       |-> [s \in 0..(StackSize - 1) |-> 0],
      V           |-> [x \in 0..(NumRegs - 1) |-> 0],
      I           |-> 0,
      PC          |-> 0,
      delay_timer |-> 0,
      sound_timer |-> 0,
      keypad      |-> [k \in 0..(NumKeys - 1) |-> FALSE] ]

----------------------------------------------------------------------------
(* init_chip8 *)

entry_point == 512

font ==
    <<240, 144, 144, 144, 240,
      32, 96, 32, 32, 112,
      240, 16, 240, 128, 240,
      240, 16, 240, 16, 240,
      144, 144, 240, 16, 16,
      240, 128, 240, 16, 240,
      240, 128, 240, 144, 240,
      240, 16, 32, 64, 64,
      240, 144, 240, 144, 240,
      240, 144, 240, 16, 240,
      240, 144, 240, 144, 144,
      224, 144, 224, 144, 224,
      240, 128, 128, 128, 240,
      224, 144, 144, 144, 224,
      240, 128, 240, 128, 240,
      240, 128, 240, 128, 128>>

\* const size_t max_size = sizeof chip8->ram - entry_point;
max_size == RamSize - entry_point

\* The files argv[1] can name.  exists: fopen succeeds.  size: what ftell
\* reports.  got: the bytes fread delivers before it stops (got = size unless
\* the read fails part-way).
RomSizes == (0..SmallSize) \cup ((max_size - Near)..(max_size + 1 + Near))

RomFiles ==
    { [exists |-> FALSE, size |-> 0, got |-> 0] }
    \cup
    UNION { { [exists |-> TRUE, size |-> n, got |-> g] : g \in {0, n} } :
            n \in RomSizes }

\* Byte i (from 0) of the file: contents in which neighbouring bytes differ.
RomByte(r, i) == (37 * i + 1) % 256

\* The offsets memcpy(&chip8->ram[0], font, sizeof(font)) writes, and the
\* bytes it puts there.
FontWrites == 0..(Len(font) - 1)

FontImage == [a \in FontWrites |-> font[a + 1]]

\* Mutant of load_font: the defaults are set before the ROM is checked.
load_font_defaults_first(c) ==
    [c EXCEPT !.ram = FontImage @@ c.ram, !.state = RUNNING, !.PC = entry_point]

\* memcpy(&chip8->ram[0], font, sizeof(font));
load_font(c) == [c EXCEPT !.ram = FontImage @@ c.ram]

\* Mutant of too_big: a ROM that exactly fills the memory is rejected.
too_big_at_limit(rom_size) == rom_size >= max_size

\* Mutant of too_big: the size is compared with the whole memory.
too_big_for_ram(rom_size) == rom_size > RamSize

\* if (rom_size > max_size)
too_big(rom_size) == rom_size > max_size

\* Mutant of fread_items: the read counts as done when no byte is missing.
fread_items_all_bytes(r) == IF r.got = r.size THEN 1 ELSE 0

\* fread(&chip8->ram[entry_point], rom_size, 1, rom): the number of whole
\* items of rom_size bytes read, which is 0 when rom_size is 0.
fread_items(r) == IF r.size > 0 /\ r.got = r.size THEN 1 ELSE 0

\* The offsets fread writes: r.got bytes from &chip8->ram[entry_point] on.
RomWrites(r) == entry_point..(entry_point + r.got - 1)

\* Mutant of fread_store: the ROM is read to &chip8->ram[0].
fread_store_at_zero(c, r) ==
    [c EXCEPT !.ram = [a \in 0..(r.got - 1) |-> RomByte(r, a)] @@ c.ram]

\* The bytes fread stores there.
fread_store(c, r) ==
    [c EXCEPT !.ram = [a \in RomWrites(r) |-> RomByte(r, a - entry_point)]
                      @@ c.ram]

\* Set defaults
set_defaults(c) == [c EXCEPT !.state = RUNNING, !.PC = entry_point]

init_chip8(c, r) ==
    LET c1 == load_font(c) IN
    IF ~r.exists
    THEN [ok |-> FALSE, chip8 |-> c1, written |-> FontWrites,
          log |-> "ROM file invalid or does not exist"]
    ELSE IF too_big(r.size)
    THEN [ok |-> FALSE, chip8 |-> c1, written |-> FontWrites,
          log |-> "ROM file is too big"]
    ELSE IF fread_items(r) # 1
    THEN [ok |-> FALSE, chip8 |-> fread_store(c1, r),
          written |-> FontWrites \cup RomWrites(r),
          log |-> "Could not read ROM file into CHIP8 memory"]
    ELSE [ok |-> TRUE, chip8 |-> set_defaults(fread_store(c1, r)),
          written |-> FontWrites \cup RomWrites(r),
          log |-> ""]

----------------------------------------------------------------------------
(* handle_input *)

SDL_QUIT == "SDL_QUIT"
SDL_KEYUP == "SDL_KEYUP"
SDL_KEYDOWN == "SDL_KEYDOWN"
SDL_MOUSEMOTION == "SDL_MOUSEMOTION"
SDLK_ESCAPE == "SDLK_ESCAPE"
SDLK_SPACE == "SDLK_SPACE"
SDLK_a == "SDLK_a"
NoSym == "none"

\* The events the window system can deliver.
Events ==
    { [type |-> SDL_QUIT, sym |-> NoSym],
      [type |-> SDL_MOUSEMOTION, sym |-> NoSym],
      [type |-> SDL_KEYUP, sym |-> SDLK_SPACE],
      [type |-> SDL_KEYDOWN, sym |-> SDLK_ESCAPE],
      [type |-> SDL_KEYDOWN, sym |-> SDLK_SPACE],
      [type |-> SDL_KEYDOWN, sym |-> SDLK_a] }

\* Mutant of toggle: the else branch is lost.
toggle_pause_only(st) == PAUSED

\* case SDLK_SPACE
toggle(st) == IF st = RUNNING THEN PAUSED ELSE RUNNING

\* Mutant of dispatch: the quit cases break out of the switch instead of
\* returning from handle_input.
dispatch_quit_breaks(st, event) ==
    CASE event.type = SDL_QUIT -> [state |-> QUIT, ret |-> FALSE]
      [] event.type = SDL_KEYUP -> [state |-> st, ret |-> FALSE]
      [] event.type = SDL_KEYDOWN ->
            (CASE event.sym = SDLK_ESCAPE -> [state |-> QUIT, ret |-> FALSE]
               [] event.sym = SDLK_SPACE -> [state |-> toggle(st), ret |-> FALSE]
               [] OTHER -> [state |-> st, ret |-> FALSE])
      [] OTHER -> [state |-> st, ret |-> FALSE]

\* Mutant of dispatch: case SDL_KEYUP has no break and falls into
\* case SDL_KEYDOWN.
dispatch_keyup_falls_through(st, event) ==
    CASE event.type = SDL_QUIT -> [state |-> QUIT, ret |-> TRUE]
      [] event.type \in {SDL_KEYUP, SDL_KEYDOWN} ->
            (CASE event.sym = SDLK_ESCAPE -> [state |-> QUIT, ret |-> TRUE]
               [] event.sym = SDLK_SPACE -> [state |-> toggle(st), ret |-> FALSE]
               [] OTHER -> [state |-> st, ret |-> FALSE])
      [] OTHER -> [state |-> st, ret |-> FALSE]

\* Mutant of dispatch: a paused machine only listens to the spacebar.
dispatch_paused_ignores_quit(st, event) ==
    CASE event.type = SDL_QUIT /\ st # PAUSED -> [state |-> QUIT, ret |-> TRUE]
      [] event.type = SDL_KEYDOWN ->
            (CASE event.sym = SDLK_ESCAPE /\ st # PAUSED ->
                        [state |-> QUIT, ret |-> TRUE]
               [] event.sym = SDLK_SPACE -> [state |-> toggle(st), ret |-> FALSE]
               [] OTHER -> [state |-> st, ret |-> FALSE])
      [] OTHER -> [state |-> st, ret |-> FALSE]

\* The body of the switch for one polled event: the new state, and whether
\* handle_input returns instead of polling again.
dispatch(st, event) ==
    CASE event.type = SDL_QUIT -> [state |-> QUIT, ret |-> TRUE]
      [] event.type = SDL_KEYUP -> [state |-> st, ret |-> FALSE]
      [] event.type = SDL_KEYDOWN ->
            (CASE event.sym = SDLK_ESCAPE -> [state |-> QUIT, ret |-> TRUE]
               [] event.sym = SDLK_SPACE -> [state |-> toggle(st), ret |-> FALSE]
               [] OTHER -> [state |-> st, ret |-> FALSE])
      [] OTHER -> [state |-> st, ret |-> FALSE]

\* while(SDL_PollEvent(&event)) { switch ... }: the state handle_input leaves
\* and the events it leaves in the queue.
RECURSIVE handle_input(_, _)
handle_input(st, q) ==
    IF q = <<>>
    THEN [state |-> st, queue |-> q]
    ELSE LET d == dispatch(st, Head(q)) IN
         IF d.ret
         THEN [state |-> d.state, queue |-> Tail(q)]
         ELSE handle_input(d.state, Tail(q))

----------------------------------------------------------------------------
(* main *)

\* The events for which handle_input takes the SDLK_SPACE branch.
IsToggle(e) == e.type = SDL_KEYDOWN /\ e.sym = SDLK_SPACE

Toggles(q) == Cardinality({ i \in 1..Len(q) : IsToggle(q[i]) })

\* last_iter: the state the iteration began in, whether handle_input left
\* events in the queue, and the spacebar key-downs among the events it polled.
NoIter == [pre |-> QUIT, left |-> FALSE, toggles |-> 0]

Init ==
    /\ pc = "init"
    /\ chip8 = ZeroChip8
    /\ rom \in RomFiles
    /\ queue = <<>>
    /\ log = ""
    /\ written = {}
    /\ last_iter = NoIter

\* if (!init_chip8(&chip8, config, rom_name)) exit(EXIT_FAILURE);
LoadRom ==
    /\ pc = "init"
    /\ LET res == init_chip8(chip8, rom) IN
        /\ chip8' = res.chip8
        /\ log' = res.log
        /\ written' = written \cup res.written
        /\ pc' = IF res.ok THEN "loop" ELSE "exit_failure"
    /\ UNCHANGED <<rom, queue, last_iter>>

\* One iteration of while(chip8.state != QUIT): handle_input, SDL_Delay,
\* update_screen.
MainLoop ==
    /\ pc = "loop"
    /\ chip8.state # QUIT
    /\ LET h == handle_input(chip8.state, queue) IN
        /\ chip8' = [chip8 EXCEPT !.state = h.state]
        /\ queue' = h.queue
        /\ last_iter' = [pre |-> chip8.state,
                         left |-> h.queue # <<>>,
                         toggles |-> Toggles(SubSeq(queue, 1,
                                         Len(queue) - Len(h.queue)))]
    /\ UNCHANGED <<pc, rom, log, written>>

\* The loop condition fails: final_cleanup(sdl); exit(EXIT_SUCCESS);
Cleanup ==
    /\ pc = "loop"
    /\ chip8.state = QUIT
    /\ pc' = "exit_success"
    /\ UNCHANGED <<chip8, rom, queue, log, written, last_iter>>

\* The window system queues an event.  An event that arrives before or
\* during the load waits in the queue for the first iteration of the loop
\* exactly as one that arrives right after the load, so arrivals are taken
\* from the load on; after exit nothing polls the queue.
PostEvent ==
    /\ pc = "loop"
    /\ Len(queue) < MaxQueue
    /\ \E e \in Events : queue' = Append(queue, e)
    /\ UNCHANGED <<pc, chip8, rom, log, written, last_iter>>

Next == LoadRom \/ MainLoop \/ Cleanup \/ PostEvent

Spec == Init /\ [][Next]_vars

----------------------------------------------------------------------------
(* Properties of the loader *)

MsgNoFile == "ROM file invalid or does not exist"
MsgTooBig == "ROM file is too big"
MsgNoRead == "Could not read ROM file into CHIP8 memory"

Loaded == pc \in {"loop", "exit_success"}
LoadFailed == pc = "exit_failure"

FontInRam == \A a \in 0..79 : chip8.ram[a] = font[a + 1]
RomInRam == \A i \in 0..(rom.size - 1) : chip8.ram[512 + i] = RomByte(rom, i)

\* init_chip8 has returned and the main loop has not yet run an iteration.
AfterLoad == pc # "init" /\ last_iter = NoIter

LoadedAsClaimed ==
    /\ Loaded
    /\ log = ""
    /\ FontInRam
    /\ RomInRam
    /\ chip8.PC = 512
    /\ chip8.state = RUNNING

\* C1 as stated: every readable ROM of 0 to 3584 bytes loads: init_chip8
\* succeeds and leaves the font in ram at 0x000..0x04F, the ROM bytes in
\* order from 0x200, PC = 0x200 and the state RUNNING.
C1_AnyReadableRomLoads ==
    (AfterLoad /\ rom.exists /\ rom.got = rom.size /\ rom.size <= 3584)
    => LoadedAsClaimed

\* C1 as amended: every readable ROM of 1 to 3584 bytes loads (font at
\* 0x000..0x04F, ROM bytes in order from 0x200, PC = 0x200, state RUNNING);
\* a readable ROM of 0 bytes is refused as a read failure.
C1_NonEmptyRomLoads ==
    (AfterLoad /\ rom.exists /\ rom.got = rom.size /\ rom.size <= 3584)
    => IF rom.size >= 1
       THEN LoadedAsClaimed
       ELSE LoadFailed /\ log = MsgNoRead

C1_Witness ==
    /\ Loaded
    /\ rom.size = 3584
    /\ last_iter = NoIter
    /\ chip8.state = RUNNING
    /\ chip8.ram[4095] = RomByte(rom, 3583)

\* C2: a ROM of more than 3584 bytes is refused with the too-big message
\* and none of its bytes reach ram; a ROM of exactly 3584 bytes is not refused
\* for its size.
C2_TooBigRefused ==
    (pc # "init" /\ rom.exists)
    => /\ rom.size > 3584
            => /\ LoadFailed
               /\ log = MsgTooBig
               /\ written \subseteq 0..79
               /\ \A a \in 80..(RamSize - 1) : chip8.ram[a] = 0
       /\ rom.size = 3584 => log # MsgTooBig

C2_Witness ==
    /\ LoadFailed
    /\ rom.exists
    /\ rom.size = 3585
    /\ rom.got = rom.size
    /\ log = MsgTooBig

\* C3: after a failed load (no file, too big, or read failure) the machine
\* is not started: the state is neither RUNNING nor PAUSED, PC is not the
\* entry point, and the main loop has run no iteration.
C3_NoPartialMachine ==
    (LoadFailed \/ log # "")
    => /\ LoadFailed
       /\ log \in {MsgNoFile, MsgTooBig, MsgNoRead}
       /\ chip8.state \notin {RUNNING, PAUSED}
       /\ chip8.PC # 512
       /\ last_iter = NoIter

C3_Witness ==
    /\ LoadFailed
    /\ log = MsgNoRead
    /\ rom.size > 0
    /\ rom.got < rom.size


----------------------------------------------------------------------------
(* Properties of the input handler and the main loop *)

IsQuit(e) ==
    \/ e.type = SDL_QUIT
    \/ e.type = SDL_KEYDOWN /\ e.sym = SDLK_ESCAPE

HasQuit(q) == \E i \in 1..Len(q) : IsQuit(q[i])

\* The events after the first quit request of q.
AfterFirstQuit(q) ==
    LET k == CHOOSE i \in 1..Len(q) :
                 IsQuit(q[i]) /\ \A j \in 1..(i - 1) : ~IsQuit(q[j])
    IN SubSeq(q, k + 1, Len(q))

\* In a step: the events that left the queue (none when an event arrived).
Polled == SubSeq(queue, 1, Len(queue) - Len(queue'))

\* In a step: no event arrived, so a step that changes anything is an
\* iteration of the main loop.
NoArrival == pc = "loop" /\ pc' = "loop" /\ Len(queue') <= Len(queue)

Flip(st) == CASE st = RUNNING -> PAUSED [] st = PAUSED -> RUNNING

\* C4: QUIT is terminal.  An iteration that finds a quit request in the
\* queue ends in QUIT and polls nothing behind that request; from QUIT on,
\* the state stays QUIT, no iteration runs and no event is taken from the
\* queue, whatever is queued.
C4_QuitTerminal ==
    [][ /\ (NoArrival /\ chip8.state # QUIT /\ HasQuit(queue))
            => /\ chip8'.state = QUIT
               /\ queue' = AfterFirstQuit(queue)
        /\ (Loaded /\ chip8.state = QUIT)
            => /\ chip8'.state = QUIT
               /\ last_iter' = last_iter
               /\ Len(queue') >= Len(queue)
               /\ SubSeq(queue', 1, Len(queue)) = queue ]_vars

C4_Witness ==
    /\ pc = "exit_success"
    /\ chip8.state = QUIT
    /\ last_iter.left
    /\ IsToggle(Head(queue))

\* C5: from a PAUSED state, no step changes a register, I, PC, a memory
\* byte, a timer, the stack or a display cell (so PC at resume is PC at
\* pause), and the state stays PAUSED unless the iteration polled a spacebar
\* key-down or a quit request.
C5_PausedFrozen ==
    [][ (Loaded /\ chip8.state = PAUSED)
        => /\ chip8'.V = chip8.V
           /\ chip8'.I = chip8.I
           /\ chip8'.PC = chip8.PC
           /\ chip8'.ram = chip8.ram
           /\ chip8'.delay_timer = chip8.delay_timer
           /\ chip8'.sound_timer = chip8.sound_timer
           /\ chip8'.stack = chip8.stack
           /\ chip8'.display = chip8.display
           /\ chip8'.state # PAUSED
                => \E i \in 1..Len(Polled) :
                       IsToggle(Polled[i]) \/ IsQuit(Polled[i]) ]_vars

C5_Witness ==
    /\ chip8.state = PAUSED
    /\ last_iter.pre = PAUSED
    /\ last_iter.toggles = 0

\* C7: after a successful load the copies have written exactly the font
\* range 0x000..0x04F and the ROM range 0x200..0x200+len-1, all inside
\* ram[0..4095], and no later step writes memory.
C7_WritesInBounds ==
    /\ [](Loaded
          => /\ rom.size <= 3584
             /\ written = (0..79) \cup (512..(512 + rom.size - 1))
             /\ written \subseteq 0..4095
             /\ DOMAIN chip8.ram = 0..4095)
    /\ [][ Loaded => chip8'.ram = chip8.ram /\ written' = written ]_vars

C7_Witness ==
    /\ Loaded
    /\ rom.size = 3584
    /\ 4095 \in written
    /\ last_iter # NoIter

\* C8: the spacebar key-down toggles between RUNNING and PAUSED.  An
\* iteration that polls no quit request leaves the state it began in when it
\* polled an even number of spacebar key-downs and the other of RUNNING and
\* PAUSED when it polled an odd number; no other event counts.
C8_SpaceToggles ==
    [][ (Loaded /\ chip8.state # QUIT /\ ~HasQuit(Polled))
        => /\ chip8.state \in {RUNNING, PAUSED}
           /\ chip8'.state = IF Toggles(Polled) % 2 = 0
                             THEN chip8.state
                             ELSE Flip(chip8.state) ]_vars

C8_Witness ==
    /\ chip8.state = PAUSED
    /\ last_iter.pre = PAUSED
    /\ last_iter.toggles = 2

\* C10: a RUNNING or PAUSED machine has an even PC in 0x000..0xFFF inside
\* the loaded program, 0x200 <= PC < 0x200 + ROM length.
C10_PcInProgram ==
    chip8.state \in {RUNNING, PAUSED}
    => /\ Loaded
       /\ chip8.PC % 2 = 0
       /\ chip8.PC \in 0..4095
       /\ 512 <= chip8.PC
       /\ chip8.PC < 512 + rom.size

C10_Witness ==
    /\ chip8.state = PAUSED
    /\ rom.size = 1
    /\ chip8.PC = 512

----------------------------------------------------------------------------
(* Responsiveness to quit *)

\* main() runs on: the load is attempted, a loop iteration whose condition
\* holds is executed (SDL_Delay returns), and cleanup follows the loop.
LiveSpec ==
    /\ Spec
    /\ WF_vars(LoadRom)
    /\ WF_vars(MainLoop)
    /\ WF_vars(Cleanup)

\* C9: a quit request queued while the machine is RUNNING or PAUSED leads
\* to state QUIT with the loop left and cleanup done; and the iteration of a
\* PAUSED machine that polls the request already ends in QUIT.
C9_QuitGetsThrough ==
    /\ (Loaded /\ chip8.state \in {RUNNING, PAUSED} /\ HasQuit(queue))
           ~> (pc = "exit_success" /\ chip8.state = QUIT)
    /\ [][ (NoArrival /\ chip8.state = PAUSED /\ HasQuit(queue))
           => chip8'.state = QUIT ]_vars

C9_Witness ==
    /\ pc = "exit_success"
    /\ chip8.state = QUIT
    /\ last_iter.pre = PAUSED

----------------------------------------------------------------------------
(* The main loop as the 60Hz tick of the timers *)

\* A loaded machine whose timers hold any value.
TimerInit ==
    /\ pc = "loop"
    /\ rom \in { r \in RomFiles : init_chip8(ZeroChip8, r).ok }
    /\ \E d \in 0..MaxTimer, t \in 0..MaxTimer :
          chip8 = [init_chip8(ZeroChip8, rom).chip8
                      EXCEPT !.delay_timer = d, !.sound_timer = t]
    /\ queue = <<>>
    /\ log = ""
    /\ written = init_chip8(ZeroChip8, rom).written
    /\ last_iter = NoIter

TimerNext == MainLoop \/ Cleanup \/ PostEvent

TimerSpec == TimerInit /\ [][TimerNext]_vars

CountDown(t) == IF t > 0 THEN t - 1 ELSE 0

====
